---- MODULE Spec2Model ----
(***************************************************************************)
(* Bike-share ridership forecasting: build_model.ipynb (ingest, clean,     *)
(* daily and weekly aggregation, ARIMA fit, validation, save) and          *)
(* load_model.ipynb (load, forecast).  Each notebook cell is one action;   *)
(* the notebook's top-level names are the variables.                       *)
(*                                                                         *)
(* Conventions.  A timestamp is a number of minutes since 1970-01-01       *)
(* 00:00, a date a number of days since 1970-01-01.  A numeric cell of a   *)
(* dataframe is <<v>>, or NaN (the empty tuple) when the CSV field is      *)
(* empty.  A series is a sequence of [t, v] entries in index order.  A     *)
(* weekly mean is kept exact as <<sum, n>> (sum of n daily counts).        *)
(***************************************************************************)
EXTENDS Integers, Sequences, FiniteSets, TLC

VARIABLES
    pc,             \* the cell that ran last
    rides,          \* build_model: the ingested dataframe (rows in file order)
    cleaned,        \* build_model: rides without failed rides
    daily,          \* build_model: rides per day
    weekly,         \* build_model: mean daily rides per Sunday-ending week
    model,          \* build_model: ARIMA fitted on all of weekly
    trained_model,  \* build_model: ARIMA fitted on 2015-2016
    testing_model,  \* build_model: trained parameters filtered over weekly
    pkl,            \* the file bike_forecasts.pkl (<<>> while it does not exist)
    loaded_model,   \* load_model: the unpickled model
    query,          \* load_model: the last predict(start, end) issued by forecast
    result,         \* load_model: what the last forecast returned
    series          \* a weekly series under reindexing (SpecAsfreq only)

vars == <<pc, rides, cleaned, daily, weekly, model, trained_model,
          testing_model, pkl, loaded_model, query, result, series>>

(***************************************************************************)
(* Bounds of the model.                                                    *)
(***************************************************************************)
MaxRides == 3
MaxWeeks == 4

(***************************************************************************)
(* Text: characters, numerals, tokens.                                     *)
(***************************************************************************)
CharAt(s, i) == SubSeq(s, i, i)

IsDigit(c) == \E i \in 1..10 : CharAt("0123456789", i) = c

DigitValue(c) == CHOOSE v \in 0..9 : CharAt("0123456789", v + 1) = c

IsAlpha(c) == \E i \in 1..52 :
    CharAt("abcdefghijklmnopqrstuvwxyzABCDEFGHIJKLMNOPQRSTUVWXYZ", i) = c

IsAlnum(c) == IsDigit(c) \/ IsAlpha(c)

IsNumeral(s) == Len(s) > 0 /\ \A i \in 1..Len(s) : IsDigit(CharAt(s, i))

RECURSIVE ParseInt(_)
ParseInt(s) ==
    IF Len(s) = 0 THEN 0
    ELSE 10 * ParseInt(SubSeq(s, 1, Len(s) - 1)) + DigitValue(CharAt(s, Len(s)))

\* The maximal alphanumeric runs of s, left to right.
RECURSIVE TokensFrom(_, _, _)
TokensFrom(s, i, cur) ==
    IF i > Len(s) THEN (IF cur = "" THEN <<>> ELSE <<cur>>)
    ELSE IF IsAlnum(CharAt(s, i)) THEN TokensFrom(s, i + 1, cur \o CharAt(s, i))
    ELSE (IF cur = "" THEN <<>> ELSE <<cur>>) \o TokensFrom(s, i + 1, "")

Tokens(s) == TokensFrom(s, 1, "")

\* The characters of s that are not alphanumeric, left to right.
RECURSIVE Separators(_)
Separators(s) ==
    IF Len(s) = 0 THEN ""
    ELSE IF IsAlnum(CharAt(s, 1)) THEN Separators(SubSeq(s, 2, Len(s)))
    ELSE CharAt(s, 1) \o Separators(SubSeq(s, 2, Len(s)))

(***************************************************************************)
(* The proleptic Gregorian calendar.                                       *)
(***************************************************************************)
IsLeap(y) == (y % 4 = 0 /\ y % 100 # 0) \/ y % 400 = 0

DaysInMonth(y, m) ==
    IF m = 2 THEN (IF IsLeap(y) THEN 29 ELSE 28)
    ELSE IF m \in {4, 6, 9, 11} THEN 30 ELSE 31

RECURSIVE DaysBeforeMonth(_, _)
DaysBeforeMonth(y, m) ==
    IF m = 1 THEN 0 ELSE DaysBeforeMonth(y, m - 1) + DaysInMonth(y, m - 1)

\* Days from 1970-01-01 to January 1 of year y (y >= 1970).
RECURSIVE DaysBeforeYear(_)
DaysBeforeYear(y) ==
    IF y = 1970 THEN 0
    ELSE DaysBeforeYear(y - 1) + (IF IsLeap(y - 1) THEN 366 ELSE 365)

ValidDate(y, m, d) ==
    y \in 1970..2100 /\ m \in 1..12 /\ d \in 1..DaysInMonth(y, m)

ToOrdinal(y, m, d) == DaysBeforeYear(y) + DaysBeforeMonth(y, m) + (d - 1)

\* Monday = 0 ... Sunday = 6; 1970-01-01 was a Thursday.
dayofweek(day) == (day + 3) % 7

(***************************************************************************)
(* Dataframe cells and series.                                             *)
(***************************************************************************)
NaN == <<>>

IsMissing(x) == x = NaN

\* Faulty variant of Lt: a missing value compares as smaller than any number.
Lt_missing_is_small(x, c) == IsMissing(x) \/ x[1] < c

\* Elementwise comparisons of pandas: any comparison with NaN is False.
Lt(x, c) == ~IsMissing(x) /\ x[1] < c

Eq(x, y) == ~IsMissing(x) /\ ~IsMissing(y) /\ x[1] = y[1]

Entry(t, v) == [t |-> t, v |-> v]

Index(s) == {s[i].t : i \in 1..Len(s)}

RECURSIVE SumOf(_)
SumOf(s) == IF s = <<>> THEN 0 ELSE s[1].v + SumOf(Tail(s))

SetMin(S) == CHOOSE x \in S : \A y \in S : x <= y

SetMax(S) == CHOOSE x \in S : \A y \in S : x >= y

(***************************************************************************)
(* build_model.ipynb: importing ride data.                                 *)
(***************************************************************************)
MinutesPerDay == 1440

\* A numeric CSV field as read_csv parses it: empty is NaN.
ParseNumber(field) == IF field = "" THEN NaN ELSE <<ParseInt(field)>>

\* Whether text has the format '%m/%d/%Y %H:%M' of a real date and time.
IsTimestampText(text) ==
    LET tk == Tokens(text) IN
    /\ Separators(text) = "// :"
    /\ Len(tk) = 5
    /\ \A i \in 1..5 : IsNumeral(tk[i])
    /\ ValidDate(ParseInt(tk[3]), ParseInt(tk[1]), ParseInt(tk[2]))
    /\ ParseInt(tk[4]) \in 0..23
    /\ ParseInt(tk[5]) \in 0..59

\* dd.to_datetime(column, format='%m/%d/%Y %H:%M')
to_datetime_format(text) ==
    LET tk == Tokens(text) IN
    ToOrdinal(ParseInt(tk[3]), ParseInt(tk[1]), ParseInt(tk[2])) * MinutesPerDay
        + ParseInt(tk[4]) * 60 + ParseInt(tk[5])

CsvRow(id, start, dur, from, to) ==
    [Trip_id |-> id, Starttime |-> start, Tripduration |-> dur,
     From_station_id |-> from, To_station_id |-> to]

\* The rows of the data files: Trip id, Starttime, Tripduration, From station
\* id, To station id as they stand in the CSV text ("" is an empty field).
DataRows == {
    CsvRow("1", "12/13/2016 8:00",   "50",  "1026", "1026"),
    CsvRow("2", "12/13/2016 23:59",  "50",  "1026", "1032"),
    CsvRow("3", "12/13/2016 9:15",   "300", "1026", "1026"),
    CsvRow("4", "12/25/2016 23:59",  "120", "1026", "1026"),
    CsvRow("5", "12/26/2016 0:00",   "119", "1032", "1032"),
    CsvRow("6", "12/26/2016 0:00",   "",    "1026", "1026"),
    CsvRow("7", "1/1/2017 12:30",    "50",  "1026", ""),
    CsvRow("8", "1/17/2017 7:05",    "50",  "",     ""),
    CsvRow("9", "12/20/2016 10:00",  "119", "",     "1026") }

read_csv(row) ==
    [Trip_id |-> ParseNumber(row.Trip_id),
     Starttime |-> to_datetime_format(row.Starttime),
     Tripduration |-> ParseNumber(row.Tripduration),
     From_station_id |-> ParseNumber(row.From_station_id),
     To_station_id |-> ParseNumber(row.To_station_id)]

\* What ingestion makes of each row of the files: <<the dataframe row>>, or
\* <<>> for a row whose Starttime to_datetime rejects.
Ingested ==
    [row \in DataRows |->
        IF IsTimestampText(row.Starttime) THEN <<read_csv(row)>> ELSE <<>>]

(***************************************************************************)
(* build_model.ipynb: cleaning ride data.                                  *)
(***************************************************************************)
FailedRideSeconds == 120

\* Faulty variant of short: the bound itself counts as short.
short_inclusive(r) ==
    ~IsMissing(r.Tripduration) /\ r.Tripduration[1] <= FailedRideSeconds

short(r) == Lt(r.Tripduration, FailedRideSeconds)

round_trip(r) == Eq(r.From_station_id, r.To_station_id)

failed(r) == short(r) /\ round_trip(r)

\* rides[~failed]
Cleaned(df) == SelectSeq(df, LAMBDA r : ~failed(r))

(***************************************************************************)
(* build_model.ipynb: daily and weekly aggregation.                        *)
(***************************************************************************)
\* Stable insertion of a row into rows sorted by Starttime.
RECURSIVE InsertSorted(_, _)
InsertSorted(sorted, r) ==
    IF sorted = <<>> THEN <<r>>
    ELSE IF sorted[Len(sorted)].Starttime <= r.Starttime THEN Append(sorted, r)
    ELSE Append(InsertSorted(SubSeq(sorted, 1, Len(sorted) - 1), r),
                sorted[Len(sorted)])

\* df.set_index('Starttime'): the rows sorted by Starttime.
RECURSIVE set_index(_)
set_index(df) ==
    IF df = <<>> THEN <<>>
    ELSE InsertSorted(set_index(SubSeq(df, 1, Len(df) - 1)), df[Len(df)])

\* df['Trip id'] of a dataframe indexed by Starttime.
TripIdColumn(df) == [i \in 1..Len(df) |-> Entry(df[i].Starttime, df[i].Trip_id)]

\* Faulty variant of DayOf: day bins closed on the right, (00:00, 24:00].
DayOf_closed_right(ts) == (ts + MinutesPerDay - 1) \div MinutesPerDay - 1

\* The day bin [00:00, 24:00) a timestamp falls in.
DayOf(ts) == ts \div MinutesPerDay

\* s.resample('D').count() of a series sorted by timestamp: one entry per
\* day from the first to the last, counting the non-missing values.
resample_D_count(s) ==
    IF s = <<>> THEN <<>>
    ELSE LET first == DayOf(s[1].t)
             last == DayOf(s[Len(s)].t)
         IN [i \in 1..(last - first + 1) |->
                Entry(first + i - 1,
                      Cardinality({k \in 1..Len(s) :
                          DayOf(s[k].t) = first + i - 1 /\ ~IsMissing(s[k].v)}))]

Daily(df) == resample_D_count(TripIdColumn(set_index(df)))

\* Faulty variant of WeekLabel: bins closing on Saturday (rule 'W-SAT').
WeekLabel_saturday(day) == day + ((5 - dayofweek(day)) % 7)

\* The Sunday closing the Monday-to-Sunday bin of a day (rule 'W' = 'W-SUN':
\* bins closed and labelled on the right).
WeekLabel(day) == day + (6 - dayofweek(day))

Mean(s) == IF s = <<>> THEN NaN ELSE <<SumOf(s), Len(s)>>

\* s.resample('W').mean() of a daily series: one entry per bin from the
\* first day's to the last day's, the mean of the days in the bin.
resample_W_mean(s) ==
    IF s = <<>> THEN <<>>
    ELSE LET first == WeekLabel(s[1].t)
             last == WeekLabel(s[Len(s)].t)
         IN [i \in 1..((last - first) \div 7 + 1) |->
                Entry(first + 7 * (i - 1),
                      Mean(SelectSeq(s,
                          LAMBDA e : WeekLabel(e.t) = first + 7 * (i - 1))))]

\* Faulty variant of asfreq_W_SUN: the date range leaves out its last date.
asfreq_W_SUN_open_end(s) ==
    IF s = <<>> THEN <<>>
    ELSE LET lo == SetMin(Index(s))
             hi == SetMax(Index(s))
             first == lo + (6 - dayofweek(lo))
         IN IF first >= hi THEN <<>>
            ELSE [i \in 1..((hi - 1 - first) \div 7 + 1) |->
                    LET t == first + 7 * (i - 1) IN
                    IF t \in Index(s)
                    THEN Entry(t, s[CHOOSE k \in 1..Len(s) : s[k].t = t].v)
                    ELSE Entry(t, NaN)]

\* s.asfreq('W-SUN'): s reindexed on date_range(min, max, freq='W-SUN');
\* a date the index lacks gets NaN.
asfreq_W_SUN(s) ==
    IF s = <<>> THEN <<>>
    ELSE LET lo == SetMin(Index(s))
             hi == SetMax(Index(s))
             first == lo + (6 - dayofweek(lo))
         IN IF first > hi THEN <<>>
            ELSE [i \in 1..((hi - first) \div 7 + 1) |->
                    LET t == first + 7 * (i - 1) IN
                    IF t \in Index(s)
                    THEN Entry(t, s[CHOOSE k \in 1..Len(s) : s[k].t = t].v)
                    ELSE Entry(t, NaN)]

Weekly(days) == asfreq_W_SUN(resample_W_mean(days))

(***************************************************************************)
(* build_model.ipynb: ARIMA models, validation, saving.  The estimator and *)
(* the Kalman filter are statsmodels'; what the notebook depends on is     *)
(* which data and which parameters go into them, so an estimate and a      *)
(* prediction are kept as terms over their arguments.                      *)
(***************************************************************************)
p == 2
d == 1
q == 2
order == <<p, d, q>>

NoModel == [endog |-> <<>>, order |-> <<>>, params |-> <<>>]

\* SARIMAX(endog, order=order)
SARIMAX(endog, ord) == [endog |-> endog, order |-> ord]

\* The maximum-likelihood estimate: a function of the model's data and order.
MLE(m) == <<[estimated_on |-> m.endog, order |-> m.order]>>

\* m.fit(disp=0)
fit(m) == [endog |-> m.endog, order |-> m.order, params |-> MLE(m)]

\* m.filter(params): the state recursion under the given parameters.
filter(m, params) == [endog |-> m.endog, order |-> m.order, params |-> params]

TrainFirstYear == 2015
TrainLastYear == 2016

\* s.loc[first:last]: the entries dated from first to last, both included.
loc(s, first, last) == SelectSeq(s, LAMBDA e : first <= e.t /\ e.t <= last)

\* The dates the partial strings '2015' and '2016' of the slice stand for.
TrainStart == ToOrdinal(TrainFirstYear, 1, 1)

TrainEnd == ToOrdinal(TrainLastYear, 12, 31)

\* train = weekly.loc['2015':'2016']
Train(w) == loc(w, TrainStart, TrainEnd)

\* trained_model of the training cell.
TrainedModel(w) == fit(SARIMAX(Train(w), order))

\* Faulty variant of TestingModel: the parameters are estimated again on all data.
TestingModel_refit(w, trained) == fit(SARIMAX(w, order))

\* testing_model of the cell applying the trained parameters to all data.
TestingModel(w, trained) == filter(SARIMAX(w, order), trained.params)

\* Faulty variant of pickle_dump: the data is removed before pickling.
pickle_dump_remove_data(res) ==
    <<"SARIMAXResultsWrapper", res.order, res.params, <<>>>>

\* results.save(fname): the pickle of the results object, its fields in turn.
pickle_dump(res) == <<"SARIMAXResultsWrapper", res.order, res.params, res.endog>>

\* statsmodels.api.load(fname)
pickle_load(blob) == [endog |-> blob[4], order |-> blob[2], params |-> blob[3]]

\* The one-step-ahead prediction at date t: from the parameters and the
\* observations before t.
PredictionAt(res, t) ==
    [params |-> res.params, order |-> res.order,
     observed |-> SelectSeq(res.endog, LAMBDA e : e.t < t), at |-> t]

\* results.predict(start, end) for two dates on the weekly index or its
\* extension; a start before the first observation raises.
predict(res, start, end) ==
    IF res.endog = <<>> \/ start < res.endog[1].t \/ end < start
    THEN [status |-> "error", value |-> <<>>]
    ELSE [status |-> "ok",
          value |-> [i \in 1..((end - start) \div 7 + 1) |->
                        PredictionAt(res, start + 7 * (i - 1))]]

(***************************************************************************)
(* load_model.ipynb: the forecast function.                                *)
(***************************************************************************)
MonthNames ==
    <<"jan", "feb", "mar", "apr", "may", "jun",
      "jul", "aug", "sep", "oct", "nov", "dec">>

Lower(c) ==
    IF \E i \in 1..26 : CharAt("ABCDEFGHIJKLMNOPQRSTUVWXYZ", i) = c
    THEN CharAt("abcdefghijklmnopqrstuvwxyz",
                CHOOSE i \in 1..26 : CharAt("ABCDEFGHIJKLMNOPQRSTUVWXYZ", i) = c)
    ELSE c

RECURSIVE LowerCase(_)
LowerCase(s) ==
    IF Len(s) = 0 THEN "" ELSE Lower(CharAt(s, 1)) \o LowerCase(SubSeq(s, 2, Len(s)))

IsMonthName(tok) == \E m \in 1..12 : LowerCase(tok) = MonthNames[m]

MonthNumber(tok) == CHOOSE m \in 1..12 : LowerCase(tok) = MonthNames[m]

\* The (year, month, day) the date parser reads from a date string: a month
\* name with day and year; year first when the first number has four digits;
\* otherwise month first, or day first when the first number is no month.
ParseDate(text) ==
    LET tk == Tokens(text)
        nums == SelectSeq(tk, IsNumeral)
        names == SelectSeq(tk, IsMonthName)
    IN  IF Len(names) = 1 /\ Len(nums) = 2
        THEN <<ParseInt(nums[2]), MonthNumber(names[1]), ParseInt(nums[1])>>
        ELSE IF Len(nums[1]) = 4
        THEN <<ParseInt(nums[1]), ParseInt(nums[2]), ParseInt(nums[3])>>
        ELSE IF ParseInt(nums[1]) <= 12
        THEN <<ParseInt(nums[3]), ParseInt(nums[1]), ParseInt(nums[2])>>
        ELSE <<ParseInt(nums[3]), ParseInt(nums[2]), ParseInt(nums[1])>>

IsDateText(text) ==
    LET tk == Tokens(text)
        nums == SelectSeq(tk, IsNumeral)
        names == SelectSeq(tk, IsMonthName)
    IN  /\ \/ Len(names) = 1 /\ Len(nums) = 2 /\ Len(tk) = 3
           \/ Len(names) = 0 /\ Len(nums) = 3 /\ Len(tk) = 3
        /\ LET ymd == ParseDate(text) IN ValidDate(ymd[1], ymd[2], ymd[3])

\* pd.to_datetime(date): midnight of the date read.
to_datetime(text) ==
    LET ymd == ParseDate(text) IN ToOrdinal(ymd[1], ymd[2], ymd[3]) * MinutesPerDay

\* Faulty variant of to_period_W_SUN: the Sunday-to-Saturday week ('W-SAT').
to_period_W_SAT(ts) ==
    LET day == DayOf(ts) IN
    [start_day |-> day - ((dayofweek(day) + 1) % 7),
     end_day |-> day - ((dayofweek(day) + 1) % 7) + 6]

\* dt.to_period('W-SUN'): the Monday-to-Sunday week holding the timestamp.
to_period_W_SUN(ts) ==
    LET day == DayOf(ts) IN
    [start_day |-> day - dayofweek(day), end_day |-> day - dayofweek(day) + 6]

\* Faulty variant of end_time: the first instant after the period.
end_time_exclusive(period) == (period.end_day + 1) * MinutesPerDay

\* period.end_time: the last instant of the period.
end_time(period) == period.end_day * MinutesPerDay + (MinutesPerDay - 1)

\* timestamp.date()
date(ts) == DayOf(ts)

\* sunday of forecast(date)
ForecastSunday(text) == date(end_time(to_period_W_SUN(to_datetime(text))))

\* The dates forecast is called with.
Dates == {"Jan 3, 2017", "Jan 4, 2017", "07-20-2017", "07-16-2017",
          "Jan 2, 2017", "2017-01-08", "Dec 31, 2016", "12/25/2016",
          "2016-12-15", "20-07-2017"}

\* What forecast makes of each date: <<sunday>>, or <<>> for a string
\* to_datetime rejects.
Sundays ==
    [text \in Dates |->
        IF IsDateText(text) THEN <<ForecastSunday(text)>> ELSE <<>>]

(***************************************************************************)
(* The notebooks' cells.                                                   *)
(***************************************************************************)
NoResult == [status |-> "none", value |-> <<>>]

NoQuery == [date |-> "", start |-> 0, end |-> 0]

Init ==
    /\ pc = "ingest"
    /\ rides = <<>>
    /\ cleaned = <<>>
    /\ daily = <<>>
    /\ weekly = <<>>
    /\ model = NoModel
    /\ trained_model = NoModel
    /\ testing_model = NoModel
    /\ pkl = <<>>
    /\ loaded_model = NoModel
    /\ query = NoQuery
    /\ result = NoResult
    /\ series = <<>>

\* rides = dd.read_csv(...); rides[c] = dd.to_datetime(...): one more row of
\* the files is in the dataframe.
ReadRow(row) ==
    /\ pc = "ingest"
    /\ Len(rides) < MaxRides
    /\ Ingested[row] # <<>>
    /\ \A i \in 1..Len(rides) : rides[i].Trip_id # Ingested[row][1].Trip_id
    /\ rides' = Append(rides, Ingested[row][1])
    /\ UNCHANGED <<pc, cleaned, daily, weekly, model, trained_model,
                   testing_model, pkl, loaded_model, query, result, series>>

\* short, round_trip, failed, cleaned = rides[~failed]
Clean ==
    /\ pc = "ingest"
    /\ cleaned' = Cleaned(rides)
    /\ pc' = "clean"
    /\ UNCHANGED <<rides, daily, weekly, model, trained_model, testing_model,
                   pkl, loaded_model, query, result, series>>

\* daily = cleaned.set_index('Starttime')['Trip id'].resample('D').count()
AggregateDaily ==
    /\ pc = "clean"
    /\ daily' = Daily(cleaned)
    /\ pc' = "daily"
    /\ UNCHANGED <<rides, cleaned, weekly, model, trained_model, testing_model,
                   pkl, loaded_model, query, result, series>>

\* weekly = daily.resample('W').mean().compute().asfreq('W-SUN')
ResampleWeekly ==
    /\ pc = "daily"
    /\ weekly' = Weekly(daily)
    /\ pc' = "weekly"
    /\ UNCHANGED <<rides, cleaned, daily, model, trained_model, testing_model,
                   pkl, loaded_model, query, result, series>>

\* arima = SARIMAX(weekly, order=order); model = arima.fit(disp=0)
FitModel ==
    /\ pc = "weekly"
    /\ weekly # <<>>
    /\ model' = fit(SARIMAX(weekly, order))
    /\ pc' = "fit"
    /\ UNCHANGED <<rides, cleaned, daily, weekly, trained_model, testing_model,
                   pkl, loaded_model, query, result, series>>

\* train = weekly.loc['2015':'2016']; trained_model = SARIMAX(train).fit()
TrainModel ==
    /\ pc = "fit"
    /\ Train(weekly) # <<>>
    /\ trained_model' = TrainedModel(weekly)
    /\ pc' = "train"
    /\ UNCHANGED <<rides, cleaned, daily, weekly, model, testing_model,
                   pkl, loaded_model, query, result, series>>

\* _arima = SARIMAX(weekly, order=order)
\* testing_model = _arima.filter(trained_model.params)
FilterModel ==
    /\ pc = "train"
    /\ testing_model' = TestingModel(weekly, trained_model)
    /\ pc' = "filter"
    /\ UNCHANGED <<rides, cleaned, daily, weekly, model, trained_model,
                   pkl, loaded_model, query, result, series>>

\* The model object the save cell pickles.
SavedObject == testing_model

\* testing_model.save('bike_forecasts.pkl')
SaveModel ==
    /\ pc = "filter"
    /\ pkl' = pickle_dump(SavedObject)
    /\ pc' = "save"
    /\ UNCHANGED <<rides, cleaned, daily, weekly, model, trained_model,
                   testing_model, loaded_model, query, result, series>>

\* loaded_model = load('bike_forecasts.pkl')
LoadModel ==
    /\ pc = "save"
    /\ pkl # <<>>
    /\ loaded_model' = pickle_load(pkl)
    /\ pc' = "load"
    /\ UNCHANGED <<rides, cleaned, daily, weekly, model, trained_model,
                   testing_model, pkl, query, result, series>>

\* forecast(date)
Forecast(text) ==
    /\ pc \in {"load", "forecast"}
    /\ Sundays[text] # <<>>
    /\ LET sunday == Sundays[text][1] IN
        /\ query' = [date |-> text, start |-> sunday, end |-> sunday]
        /\ result' = predict(loaded_model, sunday, sunday)
    /\ pc' = "forecast"
    /\ UNCHANGED <<rides, cleaned, daily, weekly, model, trained_model,
                   testing_model, pkl, loaded_model, series>>

Next ==
    \/ \E row \in DataRows : ReadRow(row)
    \/ Clean
    \/ AggregateDaily
    \/ ResampleWeekly
    \/ FitModel
    \/ TrainModel
    \/ FilterModel
    \/ SaveModel
    \/ LoadModel
    \/ \E text \in Dates : Forecast(text)

Spec == Init /\ [][Next]_vars

(***************************************************************************)
(* Reindexing as a function of its own: a weekly series with gaps is       *)
(* reindexed, and reindexed again.                                         *)
(***************************************************************************)
FirstSunday == ToOrdinal(2016, 12, 18)

\* What a week of an input series holds: no entry, NaN, or a mean.
WeekOptions == <<NaN, <<0, 7>>, <<9, 7>>>>

\* The series a choice (per week: 0 for no entry, else an option) describes.
RECURSIVE SeriesOf(_, _)
SeriesOf(choice, n) ==
    IF n = 0 THEN <<>>
    ELSE IF choice[n] = 0 THEN SeriesOf(choice, n - 1)
    ELSE Append(SeriesOf(choice, n - 1),
                Entry(FirstSunday + 7 * (n - 1), WeekOptions[choice[n]]))

WeeklyInputs == {SeriesOf(c, MaxWeeks) : c \in [1..MaxWeeks -> 0..3]}

InitAsfreq ==
    /\ pc = "asfreq"
    /\ series \in WeeklyInputs
    /\ rides = <<>>
    /\ cleaned = <<>>
    /\ daily = <<>>
    /\ weekly = <<>>
    /\ model = NoModel
    /\ trained_model = NoModel
    /\ testing_model = NoModel
    /\ pkl = <<>>
    /\ loaded_model = NoModel
    /\ query = NoQuery
    /\ result = NoResult

\* series.asfreq('W-SUN')
Reindex ==
    /\ pc \in {"asfreq", "reindexed"}
    /\ series' = asfreq_W_SUN(series)
    /\ pc' = "reindexed"
    /\ UNCHANGED <<rides, cleaned, daily, weekly, model, trained_model,
                   testing_model, pkl, loaded_model, query, result>>

NextAsfreq == Reindex

SpecAsfreq == InitAsfreq /\ [][NextAsfreq]_vars

(***************************************************************************)
(* Properties.  They state what a row, a day and a week are in their own   *)
(* terms, not through the operators of the cells they are about.           *)
(***************************************************************************)
Rows(df) == {df[i] : i \in 1..Len(df)}

\* A failed ride: both station ids known and equal, duration known and
\* under 120 seconds.
IsFailedRide(r) ==
    /\ r.From_station_id # <<>>
    /\ r.To_station_id # <<>>
    /\ r.From_station_id = r.To_station_id
    /\ r.Tripduration # <<>>
    /\ r.Tripduration[1] < 120

\* sub is df with some rows left out: rows of df, in df's order, none added.
RECURSIVE IsSubsequence(_, _)
IsSubsequence(sub, df) ==
    IF sub = <<>> THEN TRUE
    ELSE IF df = <<>> THEN FALSE
    ELSE IF Head(sub) = Head(df) THEN IsSubsequence(Tail(sub), Tail(df))
    ELSE IsSubsequence(sub, Tail(df))

\* C1: once the cleaning cell has run, cleaned holds exactly the rows of
\* rides that are not failed rides (same station and duration < 120), each
\* once, unchanged and in order.
C1_CleaningKeepsExactlyNonFailed ==
    pc # "ingest" =>
        /\ Rows(cleaned) = {r \in Rows(rides) : ~IsFailedRide(r)}
        /\ IsSubsequence(cleaned, rides)

\* C1 witness: the cleaning cell has run on a failed ride, a short ride
\* between two stations and a round trip of 120 seconds or more; the first
\* is gone and the other two are kept.
C1_Witness ==
    /\ pc = "clean"
    /\ Len(rides) = 3
    /\ Len(cleaned) = 2
    /\ \E r \in Rows(rides) : IsFailedRide(r)
    /\ \E r \in Rows(cleaned) :
        r.From_station_id = r.To_station_id /\ r.Tripduration = <<300>>
    /\ \E r \in Rows(cleaned) :
        r.From_station_id # r.To_station_id /\ r.Tripduration = <<50>>

HasMissingField(r) ==
    r.Tripduration = <<>> \/ r.From_station_id = <<>> \/ r.To_station_id = <<>>

\* C10: a row whose duration or a station id is missing is kept by the
\* cleaning cell, and the cell can always run (it raises on no dataframe).
C10_MissingFieldsAreKept ==
    /\ pc = "ingest" => ENABLED Clean
    /\ pc # "ingest" =>
        \A r \in Rows(rides) : HasMissingField(r) => r \in Rows(cleaned)

\* C10 witness: the cell has run on a round trip without a duration and on
\* a short ride without a destination, and kept both.
C10_Witness ==
    /\ pc = "clean"
    /\ \E r \in Rows(cleaned) :
        r.Tripduration = <<>> /\ r.From_station_id = r.To_station_id
        /\ r.From_station_id # <<>>
    /\ \E r \in Rows(cleaned) :
        r.To_station_id = <<>> /\ r.From_station_id # <<>>
        /\ r.Tripduration = <<50>>

\* The days the model's rides can start on, and a day either side.
ModelDays == (ToOrdinal(2016, 12, 12))..(ToOrdinal(2017, 1, 18))

\* The count daily gives a day: its entry's value, 0 when it has no entry.
DailyCount(day) ==
    IF \E i \in 1..Len(daily) : daily[i].t = day
    THEN daily[CHOOSE i \in 1..Len(daily) : daily[i].t = day].v
    ELSE 0

\* The sum of the daily counts of the days a to b.
CountsBetween(a, b) == SumOf(SelectSeq(daily, LAMBDA e : a <= e.t /\ e.t <= b))

\* The number of retained rows starting on one of the days a to b.
StartsBetween(a, b) ==
    Cardinality({i \in 1..Len(cleaned) :
        a * 1440 <= cleaned[i].Starttime /\ cleaned[i].Starttime < (b + 1) * 1440})

\* The ends of the date ranges compared: the days an ingested ride starts
\* on, the day before and the day after (between them nothing changes).
RangeEnds ==
    {day \in ModelDays : \E i \in 1..Len(rides) : \E near \in {day - 1, day, day + 1} :
        near * 1440 <= rides[i].Starttime /\ rides[i].Starttime < (near + 1) * 1440}

\* C2: once the daily cell has run, no day has two entries, each day's count
\* is the number of retained rows starting on that day, and over any range
\* of days the counts sum to the number of retained rows starting in it.
C2_DailyCountsConserveRecords ==
    pc = "daily" =>
        /\ \A i, j \in 1..Len(daily) : daily[i].t = daily[j].t => i = j
        /\ Index(daily) \subseteq ModelDays
        /\ \A day \in ModelDays : DailyCount(day) = StartsBetween(day, day)
        /\ \A a \in RangeEnds : \A b \in RangeEnds :
            a <= b => CountsBetween(a, b) = StartsBetween(a, b)

\* C2 witness: the daily cell has run on rides ingested out of time order,
\* with a day of two rides, a ride at midnight and a day without rides
\* between the first and the last.
C2_Witness ==
    /\ pc = "daily"
    /\ \E i \in 1..Len(daily) : daily[i].v = 2
    /\ \E i \in 1..Len(daily) : daily[i].v = 0
    /\ \E i \in 1..Len(cleaned) : cleaned[i].Starttime % 1440 = 0
    /\ \E i, j \in 1..Len(rides) : i < j /\ rides[i].Starttime > rides[j].Starttime

\* Sundays are the days a whole number of weeks from Sunday 2017-01-01.
KnownSunday == ToOrdinal(2017, 1, 1)

IsSunday(day) == (day - KnownSunday) % 7 = 0

\* Every entry is dated a Sunday, and each entry is dated a week after the
\* one before: no date twice, no Sunday between first and last left out.
IsStrictWeekly(s) ==
    /\ \A i \in 1..Len(s) : IsSunday(s[i].t)
    /\ \A i \in 1..(Len(s) - 1) : s[i + 1].t = s[i].t + 7

\* A retained ride starts in the Monday-to-Sunday week closing on sunday.
WeekHasData(sunday) ==
    \E i \in 1..Len(cleaned) :
        /\ (sunday - 6) * 1440 <= cleaned[i].Starttime
        /\ cleaned[i].Starttime < (sunday + 1) * 1440

\* The weekly index runs from the week of the first retained ride to the
\* week of the last.
WeeklyCoversRides ==
    /\ \A i \in 1..Len(cleaned) :
        \E k \in 1..Len(weekly) :
            /\ (weekly[k].t - 6) * 1440 <= cleaned[i].Starttime
            /\ cleaned[i].Starttime < (weekly[k].t + 1) * 1440
    /\ weekly # <<>> => WeekHasData(weekly[1].t) /\ WeekHasData(weekly[Len(weekly)].t)

WeeklyIsSet == pc \notin {"ingest", "clean", "daily"}

\* C6 as claimed: the weekly series has a strict Sunday index over the
\* weeks of the rides, and a week without data is a missing value.
C6_GapsAreMissing ==
    WeeklyIsSet =>
        /\ IsStrictWeekly(weekly)
        /\ WeeklyCoversRides
        /\ \A k \in 1..Len(weekly) :
            ~WeekHasData(weekly[k].t) => weekly[k].v = <<>>

\* C6 as amended: the weekly series has a strict Sunday index over the weeks
\* of the rides; a week without a retained ride is in the index with the
\* value zero (the mean of its days' zero counts), no value is missing, and
\* a week with a ride has a positive mean.
C6_StrictWeeklyIndexGapsAreZero ==
    WeeklyIsSet =>
        /\ IsStrictWeekly(weekly)
        /\ WeeklyCoversRides
        /\ \A k \in 1..Len(weekly) :
            /\ weekly[k].v # <<>>
            /\ weekly[k].v[2] \in 1..7
            /\ WeekHasData(weekly[k].t) <=> weekly[k].v[1] > 0

\* C6 witness: the weekly cell has run on rides with two weeks without any
\* ride between them.
C6_Witness ==
    /\ pc = "weekly"
    /\ Len(weekly) >= 4
    /\ \E k \in 2..(Len(weekly) - 2) :
        /\ ~WeekHasData(weekly[k].t) /\ weekly[k].v = <<0, 7>>
        /\ ~WeekHasData(weekly[k + 1].t) /\ weekly[k + 1].v = <<0, 7>>

\* C9: reindexing a series that has a strict weekly Sunday index returns the
\* series itself: the same dates, values and missing entries.
C9_ReindexIsIdempotent ==
    IsStrictWeekly(series) => asfreq_W_SUN(series) = series

\* C9 witness: a series with gaps has been reindexed, has a strict weekly
\* index now, with missing entries and values.
C9_Witness ==
    /\ pc = "reindexed"
    /\ IsStrictWeekly(series)
    /\ Len(series) >= 3
    /\ \E i \in 1..Len(series) : series[i].v = <<>>
    /\ \E i \in 1..Len(series) : series[i].v = <<9, 7>>

\* The entries of a weekly series dated in 2015 or 2016, and the others.
NewYear2015 == ToOrdinal(2015, 1, 1)

NewYear2017 == ToOrdinal(2017, 1, 1)

InTrainingYears(e) == NewYear2015 <= e.t /\ e.t < NewYear2017

TrainingWindow(w) == SelectSeq(w, InTrainingYears)

HeldOutWindow(w) == SelectSeq(w, LAMBDA e : ~InTrainingYears(e))

\* The weekly series of another run of the notebook: the same files with
\* one more row.
OtherWeekly(row) == Weekly(Daily(Cleaned(Append(rides, Ingested[row][1]))))

OtherRows ==
    {row \in DataRows :
        /\ Ingested[row] # <<>>
        /\ \A i \in 1..Len(rides) : rides[i].Trip_id # Ingested[row][1].Trip_id}

\* C7: the parameters testing_model predicts the held-out weeks with are
\* those estimated on the training window (the weekly entries of 2015 and
\* 2016), filtered over the whole series; another run whose weekly series
\* agrees on the training window has the same parameters, whatever its
\* held-out weeks.
C7_NoLookAhead ==
    pc = "filter" =>
        /\ testing_model.params = trained_model.params
        /\ trained_model.endog = TrainingWindow(weekly)
        /\ testing_model.params =
            <<[estimated_on |-> TrainingWindow(weekly), order |-> <<2, 1, 2>>]>>
        /\ testing_model.endog = weekly
        /\ \A row \in OtherRows :
            LET w2 == OtherWeekly(row) IN
            TrainingWindow(w2) = TrainingWindow(weekly) =>
                TestingModel(w2, TrainedModel(w2)).params = testing_model.params

\* C7 witness: the filter cell has run, there are held-out weeks, and
\* another run agrees on the training window and differs on the held-out one.
C7_Witness ==
    /\ pc = "filter"
    /\ HeldOutWindow(weekly) # <<>>
    /\ \E row \in OtherRows :
        /\ TrainingWindow(OtherWeekly(row)) = TrainingWindow(weekly)
        /\ HeldOutWindow(OtherWeekly(row)) # HeldOutWindow(weekly)

\* The Sundays a prediction may be asked for.
PredictionSundays ==
    {day \in (ToOrdinal(2016, 12, 11))..(ToOrdinal(2017, 1, 29))
                \cup (ToOrdinal(2017, 7, 16))..(ToOrdinal(2017, 7, 23)) :
        IsSunday(day)}

DateOf ==
    [text \in Dates |->
        CASE text = "Jan 3, 2017" -> ToOrdinal(2017, 1, 3)
          [] text = "Jan 4, 2017" -> ToOrdinal(2017, 1, 4)
          [] text = "07-20-2017" -> ToOrdinal(2017, 7, 20)
          [] text = "07-16-2017" -> ToOrdinal(2017, 7, 16)
          [] text = "Jan 2, 2017" -> ToOrdinal(2017, 1, 2)
          [] text = "2017-01-08" -> ToOrdinal(2017, 1, 8)
          [] text = "Dec 31, 2016" -> ToOrdinal(2016, 12, 31)
          [] text = "12/25/2016" -> ToOrdinal(2016, 12, 25)
          [] text = "2016-12-15" -> ToOrdinal(2016, 12, 15)
          [] text = "20-07-2017" -> ToOrdinal(2017, 7, 20)]

\* The Sunday closing the Monday-to-Sunday week of a day.
IsWeekEnding(sunday, day) ==
    IsSunday(sunday) /\ sunday - 6 <= day /\ day <= sunday

SameWeek(day1, day2) ==
    \E sunday \in (day1 - 6)..(day1 + 6) :
        IsWeekEnding(sunday, day1) /\ IsWeekEnding(sunday, day2)

C4_July20SameAsJuly16 ==
    (pc = "forecast" /\ query.date = "07-20-2017") =>
        /\ Sundays["07-16-2017"] = <<query.start>>
        /\ query.start = ToOrdinal(2017, 7, 23)
        /\ result = predict(loaded_model, Sundays["07-16-2017"][1],
                            Sundays["07-16-2017"][1])

\* C4 as amended: forecast('07-20-2017') asks for Sunday 2017-07-23 and
\* forecast('07-16-2017'), a Sunday itself, for 2017-07-16: the two calls
\* ask the model for two different weeks.
C4_July20AndJuly16DifferentWeeks ==
    pc = "forecast" =>
        /\ query.date = "07-20-2017" =>
            query.start = ToOrdinal(2017, 7, 23) /\ query.end = query.start
        /\ query.date = "07-16-2017" =>
            query.start = ToOrdinal(2017, 7, 16) /\ query.end = query.start
        /\ query.date \in {"07-20-2017", "07-16-2017"} =>
            result = predict(loaded_model, query.start, query.start)

\* C4 witness: forecast('07-16-2017') returned a prediction for Sunday
\* 2017-07-16, a week before the Sunday of '07-20-2017'.
C4_Witness ==
    /\ pc = "forecast"
    /\ query.date = "07-16-2017"
    /\ result.status = "ok"
    /\ query.start = ToOrdinal(2017, 7, 16)
    /\ Sundays["07-20-2017"] = <<query.start + 7>>

\* C5 as claimed (the docstring of forecast): the Sunday the model is asked
\* for is the Sunday nearest to the date, at most 3 days before or after it.
C5_NearestSunday ==
    pc = "forecast" =>
        /\ IsSunday(query.start)
        /\ query.start - DateOf[query.date] \in -3..3

====
